---- MODULE Spec2Model ----
(***************************************************************************)
(* Acquisition pipeline of the ThermoPro TP357 monitor (src/main.rs):      *)
(* bluetooth_scanner -> channel -> background_data_processor -> channel -> *)
(* TempMonitorApp::update, the shared Config behind a Mutex, the daily CSV *)
(* log written by log_to_csv and read once by load_history_from_csv.       *)
(*                                                                         *)
(* Time: the only Instant the pipeline compares is the one the processor   *)
(* reads at line 518; it is a monotone input, in ticks of 1/TicksPerSec s. *)
(* One calendar day (one log file) is modelled.  self.config and the       *)
(* shared Config are equal outside draw_settings_window (line 220 copies   *)
(* the first into the second in the frame that changes it), so one         *)
(* variable holds both.                                                    *)
(***************************************************************************)
EXTENDS Integers, Sequences, FiniteSets, TLC

\* ------------------------------------------------------------------ bounds
MaxEmit == 3
MaxReadings == 2
MaxClock == 2
TicksPerSec == 2
MaxPayloadLen == 3
MaxWrites == 2
MaxShortLog == 2
MaxExtraRows == 2
MaxLegacyRows == 2
MAX_HISTORY_POINTS == 200

\* ------------------------------------------------------------ data structures
Config(mac, timeout, pause, thr, cont, all) ==
  [target_mac |-> mac, scan_timeout_secs |-> timeout, scan_pause_secs |-> pause,
   duplicate_threshold_secs |-> thr, continuous_mode |-> cont, load_all_history |-> all]

\* The configuration the application starts with (app.config at line 100).
StartConfig == Config("b8:59", 2, 3, 1, TRUE, TRUE)

\* The values the settings editor can commit.
ConfigValues ==
  { StartConfig,
    Config("B8:59", 2, 3, 2, FALSE, TRUE) }

Msg(kind, id, text, ok) == [kind |-> kind, id |-> id, text |-> text, ok |-> ok]
NewData(id) == Msg("NewData", id, "", FALSE)
StatusUpdate(text) == Msg("StatusUpdate", 0, text, FALSE)
CsvWriteStatus(ok, id) == Msg("CsvWriteStatus", id, "", ok)

NoMsg == Msg("", 0, "", FALSE)

None == [some |-> FALSE, t |-> 0]
Some(t) == [some |-> TRUE, t |-> t]

VARIABLES
  shared_config,     \* Arc<Mutex<Config>> (and self.config)
  procChan,          \* scanner_tx -> processor_rx
  guiChan,           \* gui_tx -> app.rx
  guiAlive,          \* app.rx not yet dropped
  scPc,              \* where bluetooth_scanner is in its loop
  current_config,    \* the scanner's snapshot of this cycle
  scan_duration,     \* line 574 (0 outside its block)
  pause_duration,    \* line 604 (0 outside its block)
  scCycleReadings,   \* history: readings sent with success in this cycle
  scSendFailed,      \* history: the observe loop of this cycle was left by `break`
  dPc,               \* where background_data_processor is in its loop
  dMsg,              \* the NewData being processed
  now,               \* the last Instant::now() of line 518, in ticks
  write_ok,          \* line 524
  last_save_time,    \* line 513
  dOps,              \* history: what was done for the reading being processed
  logFile,           \* today's log file
  mainPc,            \* the main thread: "load", "run", "closed" or "crashed"
  history, scan_status, last_csv_write_ok,   \* TempMonitorApp
  emitted,           \* history: the messages the scanner queued
  consumed,          \* history: the messages update() took
  decisions,         \* history: the dedupe decisions
  manufacturer_data, \* the (company_id, data) entry of line 583
  data_point,        \* what lines 584-587 make of it
  written,           \* history: the readings log_to_csv was called for
  opened,            \* history: File::open succeeded at line 446 of the load
  mutex,             \* who holds the lock of the shared Config ("free": nobody)
  cfgPc,             \* per thread: fields copied under the lock (-1: not in it)
  cfgVal,            \* per thread: the Config being stored, or being cloned
  stored,            \* history: the Configs stored (the one being stored too)
  snapshots,         \* history: the clones the readers obtained
  captured,          \* per reading id: data_point.timestamp, when it was taken
  event              \* the item of the event stream the scanner handled last

vars == <<shared_config, procChan, guiChan, guiAlive,
          scPc, current_config, scan_duration, pause_duration,
          scCycleReadings, scSendFailed,
          dPc, dMsg, now, write_ok, last_save_time, dOps,
          logFile, mainPc, history, scan_status, last_csv_write_ok,
          emitted, consumed, decisions,
          manufacturer_data, data_point, written, opened,
          mutex, cfgPc, cfgVal, stored, snapshots, captured, event>>

scannerVars == <<scPc, current_config, scan_duration, pause_duration,
                 scCycleReadings, scSendFailed>>
dedupVars == <<dPc, dMsg, now, write_ok, last_save_time, dOps, decisions>>
appVars == <<mainPc, history, scan_status, last_csv_write_ok, consumed>>

\* The variables of the component specifications; Spec leaves them alone.
decoderVars == <<manufacturer_data, data_point>>
loaderVars == <<written, opened>>
configVars == <<mutex, cfgPc, cfgVal, stored, snapshots>>
readingVars == <<captured, event>>
auxVars == <<decoderVars, loaderVars, configVars, readingVars>>

\* ------------------------------------------------------------------ helpers
Last(s) == s[Len(s)]

ReadingsIn(s) == SelectSeq(s, LAMBDA m : m.kind = "NewData")

\* The process runs until the main thread panics.
ProcessAlive == mainPc # "crashed"

\* processor_rx lives as long as background_data_processor's loop does.
ProcRxAlive == dPc # "Done"

\* ------------------------------------------------------------------ scanner
Addresses == {"B8:59", "C4:7C"}

AsciiUpper(s) == IF s = "b8:59" THEN "B8:59" ELSE s

EqIgnoreAsciiCase(a, b) == AsciiUpper(a) = AsciiUpper(b)

\* What one item of the adapter's event stream can be (lines 577-584).
Events ==
  [kind : {"DeviceDiscovered", "DeviceUpdated", "DeviceConnected"},
   peripheral_ok : BOOLEAN, props_some : BOOLEAN, address : Addresses,
   has_mdata : BOOLEAN, data_len : 0..2]

YieldsReading_AnyAddress(ev, cfg) ==
  /\ ev.kind \in {"DeviceDiscovered", "DeviceUpdated"}
  /\ ev.peripheral_ok
  /\ ev.props_some
  /\ ev.has_mdata
  /\ ev.data_len >= 2

\* The event passes every test of lines 578-584 and yields a reading.
YieldsReading(ev, cfg) ==
  /\ ev.kind \in {"DeviceDiscovered", "DeviceUpdated"}
  /\ ev.peripheral_ok
  /\ ev.props_some
  /\ EqIgnoreAsciiCase(ev.address, cfg.target_mac)
  /\ ev.has_mdata
  /\ ev.data_len >= 2

ReadingEvents(cfg) == {ev \in Events : YieldsReading(ev, cfg)}

ScanStatusText(cfg) ==
  IF cfg.continuous_mode THEN "Scanning (continuous mode)..." ELSE "Scanning..."

ScanDuration_Live(cfg) ==
  IF shared_config.continuous_mode THEN 60 ELSE shared_config.scan_timeout_secs

\* Line 574.
ScanDuration(cfg) == IF cfg.continuous_mode THEN 60 ELSE cfg.scan_timeout_secs

PauseSecs_Live(cfg) ==
  IF shared_config.continuous_mode THEN 1 ELSE shared_config.scan_pause_secs

\* Lines 565 and 604.
PauseSecs(cfg) == IF cfg.continuous_mode THEN 1 ELSE cfg.scan_pause_secs

AfterEmit_NoReturn(cfg) == "Observe"

\* Where the observe loop goes after a successful send (line 590).
AfterEmit(cfg) == IF ~cfg.continuous_mode THEN "StopScan" ELSE "Observe"

\* Where the scanner goes when the send of a reading fails (line 589: break).
AfterSendFailure == "StopScan"

\* events().await.unwrap() on an Err panics the scanner task (line 576).
AfterEventsError == "Panicked"

NextReadingId == Len(ReadingsIn(emitted)) + 1

\* `let _ = tx.send(StatusUpdate(..))`: queued when the receiver lives, else lost.
ScSendStatus(text) ==
  IF ProcRxAlive
  THEN /\ Len(emitted) < MaxEmit
       /\ procChan' = Append(procChan, StatusUpdate(text))
       /\ emitted' = Append(emitted, StatusUpdate(text))
  ELSE UNCHANGED <<procChan, emitted>>

ScReadConfig ==
  /\ ProcessAlive /\ scPc = "ReadConfig"
  /\ current_config' = shared_config
  /\ scCycleReadings' = 0
  /\ scSendFailed' = FALSE
  /\ scPc' = "AcquireAdapter"
  /\ UNCHANGED <<auxVars, shared_config, procChan, guiChan, guiAlive, scan_duration,
                 pause_duration, dedupVars, logFile, appVars, emitted>>

\* Manager::new() fails (lines 562-567).
ScManagerError ==
  /\ ProcessAlive /\ scPc = "AcquireAdapter"
  /\ ScSendStatus("Error: BT adapter not found")
  /\ pause_duration' = PauseSecs(current_config)
  /\ scPc' = "Backoff"
  /\ UNCHANGED <<auxVars, shared_config, guiChan, guiAlive, current_config, scan_duration,
                 scCycleReadings, scSendFailed, dedupVars, logFile, appVars>>

\* adapters() fails or lists no adapter (line 569, the `if let` not taken).
ScNoAdapter ==
  /\ ProcessAlive /\ scPc = "AcquireAdapter"
  /\ scPc' = "Idle"
  /\ UNCHANGED <<auxVars, shared_config, procChan, guiChan, guiAlive, current_config,
                 scan_duration, pause_duration, scCycleReadings, scSendFailed,
                 dedupVars, logFile, appVars, emitted>>

ScAdapterFound ==
  /\ ProcessAlive /\ scPc = "AcquireAdapter"
  /\ ScSendStatus(ScanStatusText(current_config))
  /\ scPc' = "StartScan"
  /\ UNCHANGED <<auxVars, shared_config, guiChan, guiAlive, current_config, scan_duration,
                 pause_duration, scCycleReadings, scSendFailed, dedupVars, logFile,
                 appVars>>

\* start_scan succeeds and central.events() yields the stream (573-576).
ScStartScanOk ==
  /\ ProcessAlive /\ scPc = "StartScan"
  /\ scan_duration' = ScanDuration(current_config)
  /\ scPc' = "Observe"
  /\ UNCHANGED <<auxVars, shared_config, procChan, guiChan, guiAlive, current_config,
                 pause_duration, scCycleReadings, scSendFailed, dedupVars, logFile,
                 appVars, emitted>>

ScStartScanFail ==
  /\ ProcessAlive /\ scPc = "StartScan"
  /\ scPc' = "Idle"
  /\ UNCHANGED <<auxVars, shared_config, procChan, guiChan, guiAlive, current_config,
                 scan_duration, pause_duration, scCycleReadings, scSendFailed,
                 dedupVars, logFile, appVars, emitted>>

\* start_scan succeeds and central.events() fails (573-576).
ScEventsError ==
  /\ ProcessAlive /\ scPc = "StartScan"
  /\ scPc' = AfterEventsError
  /\ UNCHANGED <<auxVars, shared_config, procChan, guiChan, guiAlive, current_config,
                 scan_duration, pause_duration, scCycleReadings, scSendFailed,
                 dedupVars, logFile, appVars, emitted>>

\* One item of the event stream that yields a reading, sent with success.
ScEmitReading ==
  /\ ProcessAlive /\ scPc = "Observe"
  /\ ReadingEvents(current_config) # {}
  /\ ProcRxAlive
  /\ Len(emitted) < MaxEmit /\ NextReadingId <= MaxReadings
  /\ procChan' = Append(procChan, NewData(NextReadingId))
  /\ emitted' = Append(emitted, NewData(NextReadingId))
  /\ scCycleReadings' = scCycleReadings + 1
  /\ scPc' = AfterEmit(current_config)
  /\ UNCHANGED <<auxVars, shared_config, guiChan, guiAlive, current_config, scan_duration,
                 pause_duration, scSendFailed, dedupVars, logFile, appVars>>

\* The same, with processor_rx gone: send fails, the `while let` is left.
ScEmitFails ==
  /\ ProcessAlive /\ scPc = "Observe"
  /\ ReadingEvents(current_config) # {}
  /\ ~ProcRxAlive
  /\ scSendFailed' = TRUE
  /\ scPc' = AfterSendFailure
  /\ UNCHANGED <<auxVars, shared_config, procChan, guiChan, guiAlive, current_config,
                 scan_duration, pause_duration, scCycleReadings, dedupVars, logFile,
                 appVars, emitted>>

\* An item that fails a test of lines 578-584: nothing is sent.
ScIgnoreEvent ==
  /\ ProcessAlive /\ scPc = "Observe"
  /\ Events \ ReadingEvents(current_config) # {}
  /\ UNCHANGED vars

\* One item of the event stream, named: the tests of lines 578-584 and, for
\* an item that passes them, the send of line 589 and what follows it.
ScEvent ==
  /\ ProcessAlive /\ scPc = "Observe" /\ ProcRxAlive
  /\ \E ev \in Events :
       /\ event' = ev
       /\ IF YieldsReading(ev, current_config)
            THEN /\ Len(emitted) < MaxEmit /\ NextReadingId <= MaxReadings
                 /\ procChan' = Append(procChan, NewData(NextReadingId))
                 /\ emitted' = Append(emitted, NewData(NextReadingId))
                 /\ scCycleReadings' = scCycleReadings + 1
                 /\ scPc' = AfterEmit(current_config)
            ELSE UNCHANGED <<procChan, emitted, scCycleReadings, scPc>>
  /\ UNCHANGED <<shared_config, guiChan, guiAlive, current_config, scan_duration,
                 pause_duration, scSendFailed, dedupVars, logFile, appVars,
                 decoderVars, loaderVars, configVars, captured>>

\* The deadline of tokio::time::timeout wins the race (line 575).
ScTimeout ==
  /\ ProcessAlive /\ scPc = "Observe"
  /\ scPc' = "StopScan"
  /\ UNCHANGED <<auxVars, shared_config, procChan, guiChan, guiAlive, current_config,
                 scan_duration, pause_duration, scCycleReadings, scSendFailed,
                 dedupVars, logFile, appVars, emitted>>

\* events.next() yields None.
ScStreamEnd ==
  /\ ProcessAlive /\ scPc = "Observe"
  /\ scPc' = "StopScan"
  /\ UNCHANGED <<auxVars, shared_config, procChan, guiChan, guiAlive, current_config,
                 scan_duration, pause_duration, scCycleReadings, scSendFailed,
                 dedupVars, logFile, appVars, emitted>>

\* central.stop_scan() (line 600); scan_duration goes out of scope.
ScStopScan ==
  /\ ProcessAlive /\ scPc = "StopScan"
  /\ scPc' = "Idle"
  /\ scan_duration' = 0
  /\ UNCHANGED <<auxVars, shared_config, procChan, guiChan, guiAlive, current_config,
                 pause_duration, scCycleReadings, scSendFailed,
                 dedupVars, logFile, appVars, emitted>>

ScIdle ==
  /\ ProcessAlive /\ scPc = "Idle"
  /\ ScSendStatus("Waiting...")
  /\ pause_duration' = PauseSecs(current_config)
  /\ scPc' = "Sleep"
  /\ UNCHANGED <<auxVars, shared_config, guiChan, guiAlive, current_config, scan_duration,
                 scCycleReadings, scSendFailed, dedupVars, logFile, appVars>>

\* thread::sleep returns (lines 565-566 and 606).
ScWake ==
  /\ ProcessAlive /\ scPc \in {"Sleep", "Backoff"}
  /\ scPc' = "ReadConfig"
  /\ pause_duration' = 0
  /\ UNCHANGED <<auxVars, shared_config, procChan, guiChan, guiAlive, current_config,
                 scan_duration, scCycleReadings, scSendFailed,
                 dedupVars, logFile, appVars, emitted>>

\* ------------------------------------------------------------------ decoder
\* The bytes and the company identifiers (u16) the decoder is tried on.
Bytes == {0, 60, 127, 128, 215, 255}

CompanyIds == {0, 215, 255, 256, 32768, 55040, 65280, 65535}

RECURSIVE SeqsUpTo(_, _)
SeqsUpTo(S, n) ==
  IF n = 0 THEN {<<>>}
  ELSE LET shorter == SeqsUpTo(S, n - 1)
       IN shorter \cup {Append(q, x) : q \in {r \in shorter : Len(r) = n - 1}, x \in S}

Payloads == SeqsUpTo(Bytes, MaxPayloadLen)

\* (*company_id >> 8) as u8
HighByte(company_id) == (company_id \div 256) % 256

I16FromLeBytes_Unsigned(b0, b1) == b0 + 256 * b1

\* i16::from_le_bytes([b0, b1])
I16FromLeBytes(b0, b1) ==
  LET u == b0 + 256 * b1
  IN IF u >= 32768 THEN u - 65536 ELSE u

NoPoint == [some |-> FALSE, temp |-> 0, hum |-> 0]

\* Lines 584-587.  temp is held in tenths of a degree: the f32 of line 585 is
\* the i16 (exact in f32) divided by 10.0, the float nearest to that many tenths.
Decode(company_id, data) ==
  IF Len(data) >= 2
  THEN [some |-> TRUE,
        temp |-> I16FromLeBytes(HighByte(company_id), data[1]),
        hum |-> data[2]]
  ELSE NoPoint

\* The scanner's step from the manufacturer-data entry to the reading.
ScDecode ==
  /\ scPc = "Decode"
  /\ data_point' = Decode(manufacturer_data.company_id, manufacturer_data.data)
  /\ scPc' = "Decoded"
  /\ UNCHANGED <<shared_config, procChan, guiChan, guiAlive, current_config,
                 scan_duration, pause_duration, scCycleReadings, scSendFailed,
                 dedupVars, logFile, appVars, emitted, manufacturer_data, loaderVars,
                 configVars, readingVars>>

\* --------------------------------------------------------------- HistoryLog
\* A line of the log: the header, or a data row.  id names the reading the row
\* was written for (0: a row that was in the file at startup).
Header == [k |-> "hdr", id |-> 0]
Row(id) == [k |-> "row", id |-> id]

File(exists, rows) == [exists |-> exists, rows |-> rows]

\* The log file as the program can find it at startup.
InitFiles ==
  { File(FALSE, <<>>), File(TRUE, <<Header, Row(0)>>) }

WriteResults == {"ok", "open_fail", "io_fail"}

\* log_to_csv: res is what the file system does ("open_fail": OpenOptions::open
\* fails, nothing changes; "io_fail": the file is opened, created if absent, and
\* write_record or flush fails).
LogToCsv(file, row, res) ==
  LET write_header == ~file.exists \/ Len(file.rows) = 0
  IN CASE res = "open_fail" -> file
       [] res = "io_fail" -> File(TRUE, file.rows)
       [] OTHER -> File(TRUE, (IF write_header THEN <<Header>> ELSE <<>>)
                              \o file.rows \o <<row>>)

\* ------------------------------------------------------ HistoryLog, as text
\* The text of a line is a sequence of tokens: the two delimiters, the decimal
\* point, the minus sign, a run of decimal digits (v: its value), a date-time
\* in one of the two patterns (v: the second of the day it names), a word.
Tok(k, v) == [k |-> k, v |-> v]

Comma == Tok(",", 0)
Semicolon == Tok(";", 0)
Dot == Tok(".", 0)
Minus == Tok("-", 0)
Digits(n) == Tok("digits", n)
Word(w) == Tok(w, 0)

\* "%Y-%m-%dT%H:%M:%S" of the second secs of the day.
IsoText(secs) == Tok("%Y-%m-%dT%H:%M:%S", secs)

\* "%Y.%m.%d" of the day and "%H:%M:%S" of its second secs.
DateText == Tok("%Y.%m.%d", 0)
TimeText(secs) == Tok("%H:%M:%S", secs)

Abs(x) == IF x < 0 THEN -x ELSE x

\* format!("{:.1}", temp), temp in tenths (line 426).
FormatTemp(temp) ==
  (IF temp < 0 THEN <<Minus>> ELSE <<>>)
  \o <<Digits(Abs(temp) \div 10), Dot, Digits(Abs(temp) % 10)>>

\* now.format("%Y-%m-%dT%H:%M:%S"), local_now in ticks (line 427).
FormatDateTime(local_now) == <<IsoText(local_now \div TicksPerSec)>>

\* What write_record makes of the fields: the fields, commas between them.
RECURSIVE JoinFields(_, _)
JoinFields(fields, delimiter) ==
  IF Len(fields) = 0 THEN <<>>
  ELSE IF Len(fields) = 1 THEN fields[1]
  ELSE fields[1] \o <<delimiter>> \o JoinFields(Tail(fields), delimiter)

\* Line 422.
HeaderLine ==
  JoinFields(<<<<Word("DateTime")>>, <<Word("Temperature")>>, <<Word("Humidity")>>>>,
             Comma)

\* Lines 425-428.
FormatRow(local_now, temp, hum) ==
  JoinFields(<<FormatDateTime(local_now), FormatTemp(temp), <<Digits(hum)>>>>, Comma)

log_to_csv_HeaderAlways(file, temp, hum, local_now, res) ==
  CASE res = "open_fail" -> file
    [] res = "io_fail" -> File(TRUE, file.rows)
    [] OTHER -> File(TRUE, <<HeaderLine>> \o file.rows
                           \o <<FormatRow(local_now, temp, hum)>>)

\* log_to_csv, on text: local_now is what Local::now() returns at line 425.
log_to_csv(file, temp, hum, local_now, res) ==
  LET write_header == ~file.exists \/ Len(file.rows) = 0
  IN CASE res = "open_fail" -> file
       [] res = "io_fail" -> File(TRUE, file.rows)
       [] OTHER -> File(TRUE, (IF write_header THEN <<HeaderLine>> ELSE <<>>)
                              \o file.rows \o <<FormatRow(local_now, temp, hum)>>)

\* ------------------------------------------------------------------ deduper
ShouldSave_Strict(last, t, thr) ==
  ~last.some \/ (t - last.t) \div TicksPerSec > thr

\* last_save_time.map_or(true, |last| now.duration_since(last).as_secs() >= thr)
ShouldSave(last, t, thr) ==
  ~last.some \/ (t - last.t) \div TicksPerSec >= thr

\* data_point.timestamp of a NewData: Local::now() of line 586.
CapturedAt(m) == captured[m.id]

MarkTime_CapturedAt(reading, instant) == CapturedAt(reading)

\* The Instant that Some(now) of line 527 holds: `now` of line 518.
MarkTime(reading, instant) == instant

DeduperConfig_Stale == StartConfig

\* shared_config.lock().unwrap().clone(), taken for every NewData (line 517).
DeduperConfig == shared_config

DedupBranch_Report(save) == IF save THEN "Write" ELSE "EmitOutcome"

\* The `if should_save { .. } else { .. }` of lines 522-531.
DedupBranch(save) == IF save THEN "Write" ELSE "Recv"

DedupAfter_ForwardFirst(pc) ==
  CASE pc = "Write" -> "Forward"
    [] pc = "Forward" -> "EmitOutcome"
    [] pc = "EmitOutcome" -> "Mark"
    [] OTHER -> "Recv"

\* The statement order of the accepting branch (lines 524, 526, 527, 528).
DedupAfter(pc) ==
  CASE pc = "Write" -> "EmitOutcome"
    [] pc = "EmitOutcome" -> "Mark"
    [] pc = "Mark" -> "Forward"
    [] OTHER -> "Recv"

WriteOk_Always(res) == TRUE

\* log_to_csv(..).is_ok() (line 524).
WriteOk(res) == res = "ok"

ForwardedStatus_Fixed(m) == StatusUpdate("Waiting...")

\* AppMessage::StatusUpdate(status) => tx.send(AppMessage::StatusUpdate(status))
ForwardedStatus(m) == StatusUpdate(m.text)

AfterForward_NoBreak(sent, pc) == pc

\* `if tx.send(..).is_err() { ..; break; }` of lines 528 and 534.
AfterForward(sent, pc) == IF sent THEN pc ELSE "Done"

\* tx.send(m) on the channel to the GUI: queued while app.rx lives.
GuiSend(m) == IF guiAlive THEN Append(guiChan, m) ELSE guiChan

\* A NewData is received: snapshot, Instant::now(), the decision (516-522).
DedupNewData ==
  /\ ProcessAlive /\ dPc = "Recv"
  /\ procChan # <<>> /\ Head(procChan).kind = "NewData"
  /\ \E t \in now..MaxClock :
       LET config == DeduperConfig
           should_save == ShouldSave(last_save_time, t, config.duplicate_threshold_secs)
       IN /\ now' = t
          /\ dPc' = DedupBranch(should_save)
          /\ decisions' = Append(decisions,
                                 [id |-> Head(procChan).id, t |-> t, acc |-> should_save,
                                  thr |-> config.duplicate_threshold_secs])
  /\ dMsg' = IF dPc' = "Recv" THEN NoMsg ELSE Head(procChan)
  /\ procChan' = Tail(procChan)
  /\ dOps' = <<>>
  /\ UNCHANGED <<auxVars, shared_config, guiChan, guiAlive, scannerVars, write_ok,
                 last_save_time, logFile, appVars, emitted>>

\* log_to_csv(data_point.temp, data_point.hum) (line 524).
DedupWrite ==
  /\ ProcessAlive /\ dPc = "Write"
  /\ \E res \in WriteResults :
       /\ logFile' = LogToCsv(logFile, Row(dMsg.id), res)
       /\ write_ok' = WriteOk(res)
  /\ dOps' = Append(dOps, "append")
  /\ dPc' = DedupAfter("Write")
  /\ UNCHANGED <<auxVars, shared_config, procChan, guiChan, guiAlive, scannerVars, dMsg, now,
                 last_save_time, decisions, appVars, emitted>>

\* let _ = tx.send(AppMessage::CsvWriteStatus(write_ok)) (line 526).
DedupEmitOutcome ==
  /\ ProcessAlive /\ dPc = "EmitOutcome"
  /\ guiChan' = GuiSend(CsvWriteStatus(write_ok, dMsg.id))
  /\ dOps' = Append(dOps, "outcome")
  /\ dPc' = DedupAfter("EmitOutcome")
  /\ UNCHANGED <<auxVars, shared_config, procChan, guiAlive, scannerVars, dMsg, now, write_ok,
                 last_save_time, decisions, logFile, appVars, emitted>>

\* last_save_time = Some(now) (line 527).
DedupMark ==
  /\ ProcessAlive /\ dPc = "Mark"
  /\ last_save_time' = Some(MarkTime(dMsg, now))
  /\ dOps' = Append(dOps, "mark")
  /\ dPc' = DedupAfter("Mark")
  /\ UNCHANGED <<auxVars, shared_config, procChan, guiChan, guiAlive, scannerVars, dMsg, now,
                 write_ok, decisions, logFile, appVars, emitted>>

\* if tx.send(AppMessage::NewData(data_point)).is_err() { break; } (line 528).
DedupForward ==
  /\ ProcessAlive /\ dPc = "Forward"
  /\ guiChan' = GuiSend(NewData(dMsg.id))
  /\ dOps' = Append(dOps, "forward")
  /\ dPc' = AfterForward(guiAlive, DedupAfter("Forward"))
  /\ procChan' = IF dPc' = "Done" THEN <<>> ELSE procChan
  /\ dMsg' = IF dPc' = "Recv" \/ dPc' = "Done" THEN NoMsg ELSE dMsg
  /\ write_ok' = IF dPc' = "Recv" \/ dPc' = "Done" THEN TRUE ELSE write_ok
  /\ UNCHANGED <<auxVars, shared_config, guiAlive, scannerVars, now,
                 last_save_time, decisions, logFile, appVars, emitted>>

\* A StatusUpdate is received and forwarded (lines 533-535).
DedupStatus ==
  /\ ProcessAlive /\ dPc = "Recv"
  /\ procChan # <<>> /\ Head(procChan).kind = "StatusUpdate"
  /\ guiChan' = GuiSend(ForwardedStatus(Head(procChan)))
  /\ dPc' = AfterForward(guiAlive, "Recv")
  /\ procChan' = IF dPc' = "Done" THEN <<>> ELSE Tail(procChan)
  /\ UNCHANGED <<auxVars, shared_config, guiAlive, scannerVars, dMsg, now, write_ok,
                 last_save_time, dOps, decisions, logFile, appVars, emitted>>

\* `for received in rx` ends: the queue is empty and scanner_tx was dropped.
DedupChannelClosed ==
  /\ ProcessAlive /\ dPc = "Recv"
  /\ procChan = <<>> /\ scPc = "Panicked"
  /\ dPc' = "Done"
  /\ UNCHANGED <<auxVars, shared_config, procChan, guiChan, guiAlive, scannerVars, dMsg, now,
                 write_ok, last_save_time, dOps, decisions, logFile, appVars, emitted>>

\* ------------------------------------------------------------ HistoryLoader
\* The records a comma-delimited csv reader yields: the first line is taken as
\* the header line, every other line is a record.
CommaRecords(file) == IF file.rows = <<>> THEN <<>> ELSE Tail(file.rows)

\* Read semicolon-delimited, a comma-separated line is one field.
SemicolonRecords(file) ==
  [i \in 1..Len(CommaRecords(file)) |->
     [k |-> "one_field", id |-> CommaRecords(file)[i].id]]

\* Lines 464-469.
RecordsToLoad(all_records, config) ==
  IF config.load_all_history
  THEN all_records
  ELSE LET n == Len(all_records)
           start_index == IF n > MAX_HISTORY_POINTS THEN n - MAX_HISTORY_POINTS ELSE 0
       IN SubSeq(all_records, start_index + 1, n)

\* A record that parses as a row of the current format (lines 473-477).
ParsesAsPoint(rec) == rec.k = "row"

\* naive_dt.and_local_timezone(Local).unwrap() panics unless the local time is
\* unique (lines 478 and 493); unique_local tells whether every timestamp of the
\* file is (one written in the repeated hour of a clock change is not).
LoadPanics(records, unique_local) ==
  /\ ~unique_local
  /\ \E i \in 1..Len(records) : ParsesAsPoint(records[i])

RECURSIVE PointsOf(_)
PointsOf(records) ==
  IF records = <<>> THEN <<>>
  ELSE (IF ParsesAsPoint(Head(records)) THEN <<Head(records).id>> ELSE <<>>)
       \o PointsOf(Tail(records))

Loaded(records, unique_local, config) ==
  LET todo == RecordsToLoad(records, config)
  IN [panic |-> LoadPanics(todo, unique_local),
      history |-> IF LoadPanics(todo, unique_local) THEN <<>> ELSE PointsOf(todo)]

\* load_history_from_csv; open1 and open2 tell whether File::open succeeds at
\* line 446 and at line 454 (`expect("failed to reopen file")`).
LoadHistoryFromCsv(file, open1, open2, unique_local, config) ==
  IF ~file.exists \/ ~open1
  THEN [panic |-> FALSE, history |-> <<>>]
  ELSE IF CommaRecords(file) # <<>>
       THEN Loaded(CommaRecords(file), unique_local, config)
       ELSE IF ~open2
            THEN [panic |-> TRUE, history |-> <<>>]
            ELSE Loaded(SemicolonRecords(file), unique_local, config)

RECURSIVE Evict_Above(_, _)
Evict_Above(h, limit) == IF Len(h) > limit THEN Evict_Above(Tail(h), limit) ELSE h

RECURSIVE Evict(_, _)
\* while self.history.len() >= limit { self.history.pop_front(); } (line 116)
Evict(h, limit) == IF Len(h) >= limit THEN Evict(Tail(h), limit) ELSE h

\* TempMonitorApp::add_data_point; usize::MAX is never reached by a length.
AddDataPoint(h, config, id) ==
  Append(IF config.load_all_history THEN h ELSE Evict(h, MAX_HISTORY_POINTS), id)

\* --------------------------------------------------- HistoryLoader, on text
\* Where the first delimiter of a line is (0: nowhere).
FirstAt(line, delimiter) ==
  LET at == {i \in 1..Len(line) : line[i] = delimiter}
  IN IF at = {} THEN 0 ELSE CHOOSE i \in at : \A j \in at : i <= j

\* The fields the csv reader splits a line into.
RECURSIVE SplitFields(_, _)
SplitFields(line, delimiter) ==
  LET i == FirstAt(line, delimiter)
  IN IF i = 0 THEN <<line>>
     ELSE <<SubSeq(line, 1, i - 1)>>
          \o SplitFields(SubSeq(line, i + 1, Len(line)), delimiter)

\* csv::ReaderBuilder::new().delimiter(d).from_reader(file).records()
\*   .filter_map(Result::ok).collect()
\* with the builder's defaults: the first line is the header line and is not a
\* record (has_headers), and a line that has not as many fields as the first
\* one is an Err(UnequalLengths) (flexible is off), which filter_map drops.
\* Empty lines are skipped.
csv_records(rows, delimiter) ==
  LET lines == SelectSeq(rows, LAMBDA l : Len(l) > 0)
      fields == [i \in 1..Len(lines) |-> SplitFields(lines[i], delimiter)]
  IN IF Len(lines) = 0 THEN <<>>
     ELSE SelectSeq(Tail(fields), LAMBDA r : Len(r) = Len(fields[1]))

Parsed(v) == [ok |-> TRUE, v |-> v]
NotParsed == [ok |-> FALSE, v |-> 0]

\* temp_str.replace(',', ".")
ReplaceComma(field) == [i \in 1..Len(field) |-> IF field[i] = Comma THEN Dot ELSE field[i]]

\* str::parse::<f32>, in tenths: an optional sign, digits, and optionally a
\* point and one more digit.
ParseF32(field) ==
  LET neg == Len(field) > 0 /\ field[1] = Minus
      body == IF neg THEN Tail(field) ELSE field
      sign == IF neg THEN -1 ELSE 1
  IN IF Len(body) = 1 /\ body[1].k = "digits"
     THEN Parsed(sign * 10 * body[1].v)
     ELSE IF /\ Len(body) = 3
             /\ body[1].k = "digits" /\ body[2] = Dot /\ body[3].k = "digits"
             /\ body[3].v < 10
          THEN Parsed(sign * (10 * body[1].v + body[3].v))
          ELSE NotParsed

\* str::parse::<u8>
ParseU8(field) ==
  IF Len(field) = 1 /\ field[1].k = "digits" /\ field[1].v <= 255
  THEN Parsed(field[1].v)
  ELSE NotParsed

\* NaiveDateTime::parse_from_str(dt_str, "%Y-%m-%dT%H:%M:%S") (line 475).
ParseIso(field) ==
  IF Len(field) = 1 /\ field[1].k = "%Y-%m-%dT%H:%M:%S"
  THEN Parsed(field[1].v)
  ELSE NotParsed

\* format!("{} {}", date_str, time_str) parsed as "%Y.%m.%d %H:%M:%S"
\* (lines 490-491).
ParseLegacy(date_str, time_str) ==
  IF /\ Len(date_str) = 1 /\ date_str[1].k = "%Y.%m.%d"
     /\ Len(time_str) = 1 /\ time_str[1].k = "%H:%M:%S"
  THEN Parsed(time_str[1].v)
  ELSE NotParsed

\* A HistoryPoint: the timestamp in ticks, the temperature in tenths.
HistoryPoint(timestamp, temp, hum) == [timestamp |-> timestamp, temp |-> temp, hum |-> hum]

\* The body of the loop of lines 471-497 for one record: the point pushed, if
\* any.  naive_dt.and_local_timezone(Local) is the second as a local time.
ParseRecord(record) ==
  LET new_format ==
        /\ Len(record) >= 3
        /\ ParseIso(record[1]).ok
        /\ ParseF32(ReplaceComma(record[2])).ok
        /\ ParseU8(record[3]).ok
      old_format ==
        /\ Len(record) >= 4
        /\ ParseLegacy(record[1], record[2]).ok
        /\ ParseF32(ReplaceComma(record[3])).ok
        /\ ParseU8(record[4]).ok
  IN IF new_format
     THEN <<HistoryPoint(ParseIso(record[1]).v * TicksPerSec,
                         ParseF32(ReplaceComma(record[2])).v, ParseU8(record[3]).v)>>
     ELSE IF old_format
          THEN <<HistoryPoint(ParseLegacy(record[1], record[2]).v * TicksPerSec,
                              ParseF32(ReplaceComma(record[3])).v, ParseU8(record[4]).v)>>
          ELSE <<>>

\* The loop of lines 471-497: the points pushed, in the order of the records.
ParseRecords(records) ==
  LET pushed == [i \in 1..Len(records) |-> ParseRecord(records[i])]
      at == SelectSeq([i \in 1..Len(records) |-> i], LAMBDA i : pushed[i] # <<>>)
  IN [j \in 1..Len(at) |-> pushed[at[j]][1]]

\* load_history_from_csv, on text.  open1, open2 and unique_local as above; a
\* record that parses reaches the unwrap of line 478 or 493.
load_history_from_csv(file, open1, open2, unique_local, config) ==
  IF ~file.exists \/ ~open1
  THEN [panic |-> FALSE, history |-> <<>>]
  ELSE LET records == csv_records(file.rows, Comma)
           reopen == records = <<>>
           all_records == IF reopen THEN csv_records(file.rows, Semicolon) ELSE records
           points == ParseRecords(RecordsToLoad(all_records, config))
       IN IF reopen /\ ~open2
          THEN [panic |-> TRUE, history |-> <<>>]
          ELSE IF points # <<>> /\ ~unique_local
               THEN [panic |-> TRUE, history |-> <<>>]
               ELSE [panic |-> FALSE, history |-> points]

\* What load_config() can return for load_all_history (line 434).
LoaderConfigs == {[StartConfig EXCEPT !.load_all_history = b] : b \in BOOLEAN}

\* A row of the current format for the reading of second i.
GoodRow(i) == FormatRow(i * TicksPerSec, 200 + (i % 50), 60)

\* The same with a temperature that is no number: three fields, no point.
JunkRow(i) == JoinFields(<<FormatDateTime(i * TicksPerSec), <<Word("junk")>>,
                           <<Digits(60)>>>>, Comma)

\* A row cut short: two fields.
ShortRow(i) == JoinFields(<<FormatDateTime(i * TicksPerSec), FormatTemp(215)>>, Comma)

BadKinds == {"junk", "short"}

\* A log of the current format with n rows, those at the places bad damaged.
LogWith(n, bad, kind) ==
  File(TRUE, <<HeaderLine>> \o
             [i \in 1..n |-> IF i \notin bad THEN GoodRow(i)
                              ELSE IF kind = "junk" THEN JunkRow(i) ELSE ShortRow(i)])

\* The places a damaged row is tried at: the first row, the last one, and the
\* two next to where the last MAX_HISTORY_POINTS records begin.
BadPlaces(n) ==
  {1, n, n - MAX_HISTORY_POINTS, n - MAX_HISTORY_POINTS + 1} \cap (1..n)

RowCounts ==
  (0..MaxShortLog) \cup
  ((MAX_HISTORY_POINTS - 1)..(MAX_HISTORY_POINTS + MaxExtraRows))

CurrentFiles ==
  UNION {{LogWith(n, bad, kind) : bad \in SUBSET BadPlaces(n), kind \in BadKinds} :
         n \in RowCounts}

\* The legacy layout: Date;Time;Temp;Hum, the decimal sign a point or a comma.
LegacyHeader ==
  JoinFields(<<<<Word("Date")>>, <<Word("Time")>>, <<Word("Temp")>>, <<Word("Hum")>>>>,
             Semicolon)

LegacyTemp(temp, decimal) ==
  [i \in 1..Len(FormatTemp(temp)) |->
     IF FormatTemp(temp)[i] = Dot THEN decimal ELSE FormatTemp(temp)[i]]

LegacyRow(i, decimal) ==
  JoinFields(<<<<DateText>>, <<TimeText(i)>>, LegacyTemp(200 + i, decimal),
               <<Digits(60)>>>>, Semicolon)

\* Legacy logs: with or without the header line, up to MaxLegacyRows rows, each
\* with its decimal sign.
LegacyFiles ==
  {File(TRUE, header \o [i \in 1..Len(decimals) |-> LegacyRow(i, decimals[i])]) :
     header \in {<<>>, <<LegacyHeader>>},
     decimals \in SeqsUpTo({Dot, Comma}, MaxLegacyRows) \ {<<>>}}

\* The log files the loader is tried on.
LoaderFiles == {File(FALSE, <<>>), File(TRUE, <<>>)} \cup CurrentFiles \cup LegacyFiles

\* The temperatures (tenths) and humidities of the readings that are written.
SampleTemps == {-5, 215}

SampleHums == {60, 255}

\* Line 524 for a reading captured at timestamp (line 587) and written when
\* the local clock shows local_now (line 425); the workers run before the
\* history is loaded (lines 103-109).
WriteText ==
  /\ mainPc = "load" /\ Len(written) < MaxWrites
  /\ \E temp \in SampleTemps, hum \in SampleHums, local_now \in now..MaxClock,
        res \in WriteResults :
       \E timestamp \in 0..local_now :
         /\ logFile' = log_to_csv(logFile, temp, hum, local_now, res)
         /\ written' = Append(written, [timestamp |-> timestamp, temp |-> temp,
                                        hum |-> hum, ok |-> WriteOk(res)])
         /\ now' = local_now
  /\ UNCHANGED <<shared_config, procChan, guiChan, guiAlive, scannerVars,
                 dPc, dMsg, write_ok, last_save_time, dOps, decisions,
                 appVars, emitted, decoderVars, opened, configVars, readingVars>>

\* app.history = load_history_from_csv() (line 109), on text; shared_config
\* holds what load_config() returns at line 434.
LoadText ==
  /\ mainPc = "load"
  /\ \E open1 \in BOOLEAN, open2 \in BOOLEAN, unique_local \in BOOLEAN :
       LET r == load_history_from_csv(logFile, open1, open2, unique_local,
                                      shared_config)
       IN /\ mainPc' = IF r.panic THEN "crashed" ELSE "run"
          /\ history' = r.history
          /\ opened' = (logFile.exists /\ open1)
  /\ UNCHANGED <<shared_config, procChan, guiChan, guiAlive, scannerVars, dedupVars,
                 logFile, scan_status, last_csv_write_ok, consumed, emitted,
                 decoderVars, written, configVars, readingVars>>

\* update() receives the NewData of the next reading and calls
\* add_data_point (lines 138 and 113-120): the point has the reading's
\* timestamp, temperature and humidity.
UpdateReading ==
  /\ mainPc = "run" /\ Len(consumed) < MaxReadings
  /\ LET message == NewData(Len(consumed) + 1)
     IN /\ \E temp \in SampleTemps, hum \in SampleHums :
             history' = AddDataPoint(history, shared_config,
                                     HistoryPoint(CapturedAt(message), temp, hum))
        /\ consumed' = Append(consumed, message)
  /\ UNCHANGED <<shared_config, procChan, guiChan, guiAlive, scannerVars, dedupVars,
                 logFile, mainPc, scan_status, last_csv_write_ok, emitted,
                 decoderVars, loaderVars, configVars, readingVars>>

\* ------------------------------------------------- the shared Config's lock
\* The threads that lock the shared Config: the settings window stores into it
\* (line 220), the scanner and the processor clone it (lines 558 and 517).
Readers == {"scanner", "processor"}

Threads == {"gui"} \cup Readers

\* The fields of Config, in the order a store or a clone goes through them.
Fields == <<"target_mac", "scan_timeout_secs", "scan_pause_secs",
            "duplicate_threshold_secs", "continuous_mode", "load_all_history">>

MutexFree_NoLock == TRUE

\* Mutex::lock() returns when no other thread holds the guard.
MutexFree == mutex = "free"

\* self.shared_config.lock() succeeds; self.config.clone() is what is stored.
SettingsLock ==
  /\ mainPc = "run" /\ cfgPc["gui"] = -1
  /\ MutexFree
  /\ \E c \in ConfigValues :
       /\ cfgVal' = [cfgVal EXCEPT !["gui"] = c]
       /\ stored' = stored \cup {c}
  /\ mutex' = "gui"
  /\ cfgPc' = [cfgPc EXCEPT !["gui"] = 0]
  /\ UNCHANGED <<shared_config, procChan, guiChan, guiAlive, scannerVars, dedupVars,
                 logFile, appVars, emitted, decoderVars, loaderVars, readingVars, snapshots>>

\* *shared = ..: one field of the cell takes the new value.
SettingsStoreField ==
  /\ cfgPc["gui"] \in 0..(Len(Fields) - 1)
  /\ LET f == Fields[cfgPc["gui"] + 1]
     IN shared_config' = [shared_config EXCEPT ![f] = cfgVal["gui"][f]]
  /\ cfgPc' = [cfgPc EXCEPT !["gui"] = @ + 1]
  /\ UNCHANGED <<procChan, guiChan, guiAlive, scannerVars, dedupVars, logFile,
                 appVars, emitted, decoderVars, loaderVars, readingVars,
                 mutex, cfgVal, stored, snapshots>>

\* The guard is dropped at the end of the `if let` of line 220.
SettingsUnlock ==
  /\ cfgPc["gui"] = Len(Fields)
  /\ mutex' = "free"
  /\ cfgPc' = [cfgPc EXCEPT !["gui"] = -1]
  /\ UNCHANGED <<shared_config, procChan, guiChan, guiAlive, scannerVars, dedupVars,
                 logFile, appVars, emitted, decoderVars, loaderVars, readingVars,
                 cfgVal, stored, snapshots>>

\* shared_config.lock() of line 558 or 517 succeeds.
ReaderLock(th) ==
  /\ cfgPc[th] = -1
  /\ MutexFree
  /\ mutex' = th
  /\ cfgPc' = [cfgPc EXCEPT ![th] = 0]
  /\ UNCHANGED <<shared_config, procChan, guiChan, guiAlive, scannerVars, dedupVars,
                 logFile, appVars, emitted, decoderVars, loaderVars, readingVars,
                 cfgVal, stored, snapshots>>

\* config.clone(): one field of the cell is copied.
ReaderCloneField(th) ==
  /\ cfgPc[th] \in 0..(Len(Fields) - 1)
  /\ LET f == Fields[cfgPc[th] + 1]
     IN cfgVal' = [cfgVal EXCEPT ![th][f] = shared_config[f]]
  /\ cfgPc' = [cfgPc EXCEPT ![th] = @ + 1]
  /\ UNCHANGED <<shared_config, procChan, guiChan, guiAlive, scannerVars, dedupVars,
                 logFile, appVars, emitted, decoderVars, loaderVars, readingVars,
                 mutex, stored, snapshots>>

\* The guard is dropped and the clone is the reader's snapshot: the scanner's
\* current_config, the processor's config.
ReaderUnlock(th) ==
  /\ cfgPc[th] = Len(Fields)
  /\ mutex' = "free"
  /\ cfgPc' = [cfgPc EXCEPT ![th] = -1]
  /\ snapshots' = snapshots \cup {cfgVal[th]}
  /\ current_config' = IF th = "scanner" THEN cfgVal[th] ELSE current_config
  /\ UNCHANGED <<shared_config, procChan, guiChan, guiAlive, scPc, scan_duration,
                 pause_duration, scCycleReadings, scSendFailed, dedupVars,
                 logFile, appVars, emitted, decoderVars, loaderVars, readingVars,
                 cfgVal, stored>>

\* --------------------------------------------------------------- application
\* app.history = load_history_from_csv() (line 109), the last step of new(),
\* taken on the main thread after both workers were started.
LoadHistory ==
  /\ mainPc = "load"
  /\ \E open1 \in BOOLEAN, open2 \in BOOLEAN, unique_local \in BOOLEAN :
       LET r == LoadHistoryFromCsv(logFile, open1, open2, unique_local, StartConfig)
       IN /\ mainPc' = IF r.panic THEN "crashed" ELSE "run"
          /\ history' = r.history
  /\ UNCHANGED <<auxVars, shared_config, procChan, guiChan, guiAlive, scannerVars, dedupVars,
                 logFile, scan_status, last_csv_write_ok, consumed, emitted>>

RECURSIVE Drain(_, _)
\* The state after the messages of q were matched in turn (lines 137-141).
Drain(app, q) ==
  IF q = <<>> THEN app
  ELSE LET message == Head(q)
       IN Drain([history |-> IF message.kind = "NewData"
                             THEN AddDataPoint(app.history, shared_config, message.id)
                             ELSE app.history,
                 scan_status |-> IF message.kind = "StatusUpdate" THEN message.text
                                 ELSE app.scan_status,
                 last_csv_write_ok |-> IF message.kind = "CsvWriteStatus" THEN message.ok
                                       ELSE app.last_csv_write_ok],
                Tail(q))

\* update(): `while let Ok(message) = self.rx.try_recv()` takes every queued
\* message (lines 136-142).
Update ==
  /\ mainPc = "run" /\ guiChan # <<>>
  /\ LET app == Drain([history |-> history, scan_status |-> scan_status,
                       last_csv_write_ok |-> last_csv_write_ok], guiChan)
     IN /\ history' = app.history
        /\ scan_status' = app.scan_status
        /\ last_csv_write_ok' = app.last_csv_write_ok
  /\ consumed' = consumed \o guiChan
  /\ guiChan' = <<>>
  /\ UNCHANGED <<auxVars, shared_config, procChan, guiAlive, scannerVars, dedupVars, logFile,
                 mainPc, emitted>>

\* The settings window stores the edited Config (line 220).
SettingsCommit ==
  /\ mainPc = "run"
  /\ \E c \in ConfigValues : shared_config' = c
  /\ UNCHANGED <<auxVars, procChan, guiChan, guiAlive, scannerVars, dedupVars, logFile,
                 appVars, emitted>>

\* The window is closed: the application, and app.rx with it, is dropped.
AppClose ==
  /\ mainPc = "run"
  /\ mainPc' = "closed"
  /\ guiAlive' = FALSE
  /\ guiChan' = <<>>
  /\ history' = <<>> /\ scan_status' = "" /\ last_csv_write_ok' = TRUE
  /\ consumed' = <<>>
  /\ UNCHANGED <<auxVars, shared_config, procChan, scannerVars, dedupVars, logFile, emitted>>

\* ------------------------------------------------------------ specification
\* The state at line 109: both channels made, both workers started.
DecoderAtRest ==
  /\ manufacturer_data = [company_id |-> 0, data |-> <<>>]
  /\ data_point = NoPoint

LoaderAtRest == written = <<>> /\ opened = FALSE

\* Spec keeps no reading's timestamp apart from another's.
CapturedAtRest == captured = [id \in 1..MaxReadings |-> 0]

\* No item of the event stream was handled.
NoEvent ==
  [kind |-> "", peripheral_ok |-> FALSE, props_some |-> FALSE, address |-> "",
   has_mdata |-> FALSE, data_len |-> 0]

EventAtRest == event = NoEvent

ConfigAtRest ==
  /\ mutex = "free"
  /\ cfgPc = [th \in Threads |-> -1]
  /\ cfgVal = [th \in Threads |-> StartConfig]
  /\ stored = {StartConfig}
  /\ snapshots = {}

ScannerInit ==
  /\ scPc = "ReadConfig" /\ current_config = StartConfig
  /\ scan_duration = 0 /\ pause_duration = 0
  /\ scCycleReadings = 0 /\ scSendFailed = FALSE

\* The channels, the processor and the application.
WorkersInit ==
  /\ procChan = <<>> /\ guiChan = <<>> /\ guiAlive = TRUE
  /\ dPc = "Recv" /\ dMsg = NoMsg /\ now = 0 /\ write_ok = TRUE
  /\ last_save_time = None /\ dOps = <<>>
  /\ mainPc = "load" /\ history = <<>> /\ scan_status = "Initializing..."
  /\ last_csv_write_ok = TRUE
  /\ emitted = <<>> /\ consumed = <<>> /\ decisions = <<>>

\* Everything but the scanner.
RestInit ==
  /\ shared_config = StartConfig
  /\ WorkersInit
  /\ logFile \in InitFiles

PipelineInit == ScannerInit /\ RestInit

Init == PipelineInit /\ DecoderAtRest /\ LoaderAtRest /\ ConfigAtRest /\ CapturedAtRest /\ EventAtRest

Scanner ==
  \/ ScReadConfig \/ ScManagerError \/ ScNoAdapter \/ ScAdapterFound
  \/ ScStartScanOk \/ ScStartScanFail \/ ScEventsError
  \/ ScEmitReading \/ ScEmitFails \/ ScIgnoreEvent \/ ScTimeout \/ ScStreamEnd
  \/ ScStopScan \/ ScIdle \/ ScWake

Deduper ==
  \/ DedupNewData \/ DedupWrite \/ DedupEmitOutcome \/ DedupMark \/ DedupForward
  \/ DedupStatus \/ DedupChannelClosed

App == LoadHistory \/ Update \/ SettingsCommit \/ AppClose

Next == Scanner \/ Deduper \/ App

Spec == Init /\ [][Next]_vars

\* The processor's thread is scheduled while it has a step to take.
FairSpec == Spec /\ WF_vars(Deduper)

\* The decoder alone, on every entry of the bounded sets: the scanner is at
\* line 583 of its first cycle and nothing else has run.
DecoderInit ==
  /\ RestInit /\ logFile = File(FALSE, <<>>)
  /\ scPc = "Decode" /\ current_config = StartConfig
  /\ scan_duration = ScanDuration(StartConfig) /\ pause_duration = 0
  /\ scCycleReadings = 0 /\ scSendFailed = FALSE
  /\ manufacturer_data \in [company_id : CompanyIds, data : Payloads]
  /\ data_point = NoPoint
  /\ LoaderAtRest /\ ConfigAtRest /\ CapturedAtRest /\ EventAtRest

DecoderNext == ScDecode

DecoderSpec == DecoderInit /\ [][DecoderNext]_vars

\* The observe loop of one cycle, item by item: the scanner is past line 576
\* with the snapshot of its cycle, nothing was sent yet.
ObserveInit ==
  /\ RestInit /\ logFile = File(FALSE, <<>>)
  /\ scPc = "Observe" /\ current_config \in ConfigValues
  /\ scan_duration = ScanDuration(current_config) /\ pause_duration = 0
  /\ scCycleReadings = 0 /\ scSendFailed = FALSE
  /\ DecoderAtRest /\ LoaderAtRest /\ ConfigAtRest /\ CapturedAtRest /\ EventAtRest

ObserveNext == ScEvent

ObserveSpec == ObserveInit /\ [][ObserveNext]_vars

\* The log written and read back: no log file at first, the rows of up to
\* MaxWrites readings, the load of line 109.
RoundTripInit ==
  /\ ScannerInit /\ RestInit /\ logFile = File(FALSE, <<>>)
  /\ DecoderAtRest /\ LoaderAtRest /\ ConfigAtRest /\ CapturedAtRest /\ EventAtRest

RoundTripNext == WriteText \/ LoadText

RoundTripSpec == RoundTripInit /\ [][RoundTripNext]_vars

\* The loader alone, on every file and Config of the bounded sets.
LoaderInit ==
  /\ ScannerInit /\ WorkersInit
  /\ shared_config \in LoaderConfigs
  /\ logFile \in LoaderFiles
  /\ DecoderAtRest /\ LoaderAtRest /\ ConfigAtRest /\ CapturedAtRest /\ EventAtRest

LoaderNext == LoadText

LoaderSpec == LoaderInit /\ [][LoaderNext]_vars

\* The shared Config under its lock, the stores and the clones taken field by
\* field: the window is open (line 109 is past) and each thread is at its lock().
ConfigInit ==
  /\ ScannerInit /\ shared_config = StartConfig
  /\ procChan = <<>> /\ guiChan = <<>> /\ guiAlive = TRUE
  /\ dPc = "Recv" /\ dMsg = NoMsg /\ now = 0 /\ write_ok = TRUE
  /\ last_save_time = None /\ dOps = <<>>
  /\ mainPc = "run" /\ history = <<>> /\ scan_status = "Initializing..."
  /\ last_csv_write_ok = TRUE
  /\ emitted = <<>> /\ consumed = <<>> /\ decisions = <<>>
  /\ logFile = File(FALSE, <<>>)
  /\ DecoderAtRest /\ LoaderAtRest /\ ConfigAtRest /\ CapturedAtRest /\ EventAtRest

ConfigNext ==
  \/ SettingsLock \/ SettingsStoreField \/ SettingsUnlock
  \/ \E th \in Readers : ReaderLock(th) \/ ReaderCloneField(th) \/ ReaderUnlock(th)

ConfigSpec == ConfigInit /\ [][ConfigNext]_vars

\* The readings the scanner queued, in the order and with the timestamps it
\* took them: ids 1, 2, .. with timestamps that do not go back.
CapturedTimes ==
  {c \in [1..MaxReadings -> 0..MaxClock] :
     \A i \in 1..(MaxReadings - 1) : c[i] <= c[i + 1]}

\* The processor with its queue filled: every reading was taken and sent
\* before the first is received, the settings window is open.
ProcessorInit ==
  /\ ScannerInit
  /\ shared_config \in ConfigValues
  /\ captured \in CapturedTimes
  /\ procChan = [id \in 1..MaxReadings |-> NewData(id)]
  /\ emitted = procChan
  /\ guiChan = <<>> /\ guiAlive = TRUE
  /\ dPc = "Recv" /\ dMsg = NoMsg /\ write_ok = TRUE
  /\ now = captured[MaxReadings]
  /\ last_save_time = None /\ dOps = <<>>
  /\ mainPc = "run" /\ history = <<>> /\ scan_status = "Initializing..."
  /\ last_csv_write_ok = TRUE
  /\ consumed = <<>> /\ decisions = <<>>
  /\ logFile = File(FALSE, <<>>)
  /\ DecoderAtRest /\ LoaderAtRest /\ ConfigAtRest /\ EventAtRest

ProcessorNext ==
  \/ DedupNewData \/ DedupWrite \/ DedupEmitOutcome \/ DedupMark \/ DedupForward
  \/ SettingsCommit

ProcessorSpec == ProcessorInit /\ [][ProcessorNext]_vars

\* The logs the history is loaded from: none, and undamaged ones of each length.
HistoryFiles == {File(FALSE, <<>>)} \cup {LogWith(n, {}, "junk") : n \in RowCounts}

\* The history from the load on: a log of each length and both values of
\* load_all_history, which stays as it is, then the readings that arrive.
HistoryInit ==
  /\ ScannerInit /\ WorkersInit
  /\ shared_config \in LoaderConfigs
  /\ logFile \in HistoryFiles
  /\ captured \in CapturedTimes
  /\ DecoderAtRest /\ LoaderAtRest /\ ConfigAtRest /\ EventAtRest

HistoryNext == LoadText \/ UpdateReading

HistorySpec == HistoryInit /\ [][HistoryNext]_vars

\* ------------------------------------------------------------------- claims
\* Every message sent to the GUI while app.rx lives, oldest first.
GuiStream == consumed \o guiChan

IsPrefix(s, t) == Len(s) <= Len(t) /\ s = SubSeq(t, 1, Len(s))

Max(S) == CHOOSE x \in S : \A y \in S : y <= x

AcceptedBefore(i) == {j \in 1..(i - 1) : decisions[j].acc}

Accepted(id) == \E i \in 1..Len(decisions) : decisions[i].id = id /\ decisions[i].acc

RowCountIn(file, id) == Cardinality({i \in 1..Len(file.rows) : file.rows[i] = Row(id)})

RowCount(id) == RowCountIn(logFile, id)

AcceptedIds ==
  LET acc == SelectSeq(decisions, LAMBDA d : d.acc)
  IN [i \in 1..Len(acc) |-> acc[i].id]

ForwardedIds ==
  LET fwd == ReadingsIn(GuiStream)
  IN [i \in 1..Len(fwd) |-> fwd[i].id]

InAcceptBranch == dPc \in {"Write", "EmitOutcome", "Mark", "Forward"}

\* C1: a raw reading is accepted if and only if no reading was accepted before
\* it or the time between its processing and that of the last accepted reading
\* is at least the threshold T (in ticks, T * TicksPerSec); only accepted
\* readings get a row in the log (one at most) and are forwarded, and between
\* two messages the GUI was sent exactly the accepted readings, in order.
C1_AcceptIffElapsed ==
  /\ \A i \in 1..Len(decisions) :
       decisions[i].acc <=>
         \/ AcceptedBefore(i) = {}
         \/ decisions[i].t - decisions[Max(AcceptedBefore(i))].t
              >= decisions[i].thr * TicksPerSec
  /\ \A id \in 1..MaxReadings :
       /\ RowCount(id) <= 1
       /\ RowCount(id) = 1 => Accepted(id)
  /\ guiAlive /\ ~InAcceptBranch => ForwardedIds = AcceptedIds

\* Two readings processed exactly T = 1 s apart: both accepted, written, consumed.
C1_Witness ==
  /\ Len(decisions) = 2
  /\ decisions[1].thr = 1 /\ decisions[2].thr = 1
  /\ decisions[2].t - decisions[1].t = TicksPerSec
  /\ decisions[1].acc /\ decisions[2].acc
  /\ RowCount(1) = 1 /\ RowCount(2) = 1
  /\ ReadingsIn(consumed) = <<NewData(1), NewData(2)>>

AcceptOrder == <<"append", "outcome", "mark", "forward">>

\* C2: for an accepted reading the log append, the write-outcome message, the
\* update of the last-accepted marker and the forward happen in this order, so
\* every new-reading message the GUI is sent comes directly after the
\* write-outcome message of the same reading.
C2_AcceptanceOrder ==
  /\ IsPrefix(dOps, AcceptOrder)
  /\ InAcceptBranch =>
       /\ (dPc = "Write") = (dOps = <<>>)
       /\ Len(dOps) >= 3 => last_save_time = Some(now)
       /\ Len(dOps) < 3 =>
            \/ ~last_save_time.some
            \/ now - last_save_time.t >= Last(decisions).thr * TicksPerSec
       /\ guiAlive /\ Len(dOps) >= 2 => Last(GuiStream) = CsvWriteStatus(write_ok, dMsg.id)
       /\ \A i \in 1..Len(GuiStream) : GuiStream[i] # NewData(dMsg.id)
  /\ \A i \in 1..Len(GuiStream) :
       GuiStream[i].kind = "NewData" =>
         /\ i > 1
         /\ GuiStream[i - 1].kind = "CsvWriteStatus"
         /\ GuiStream[i - 1].id = GuiStream[i].id

\* An accepted reading went through the four steps and reached the GUI.
C2_Witness ==
  /\ dOps = AcceptOrder /\ guiAlive
  /\ Len(consumed) >= 2
  /\ Last(consumed) = NewData(1)
  /\ RowCount(1) = 1

DecisionStep == Len(decisions') = Len(decisions) + 1

\* C3: the step that rejects a raw reading appends nothing to the log, sends
\* nothing to the GUI, leaves the last-accepted marker as it is and leaves the
\* processor at the head of its loop; a rejected reading never gets a row or a
\* message later either.
C3_RejectLeavesNoTrace ==
  [][(DecisionStep /\ ~Last(decisions').acc) =>
       /\ logFile' = logFile
       /\ guiChan' = guiChan
       /\ last_save_time' = last_save_time
       /\ dPc' = "Recv"
       /\ procChan' = Tail(procChan)
       /\ RowCountIn(logFile', Last(decisions').id) = 0
       /\ \A i \in 1..Len(GuiStream') : GuiStream'[i].id # Last(decisions').id]_vars

\* A reading was rejected and the processor waits for the next message.
C3_Witness ==
  /\ Len(decisions) = 2 /\ ~decisions[2].acc
  /\ dPc = "Recv" /\ guiAlive
  /\ ForwardedIds = <<1>> /\ RowCount(1) = 1 /\ RowCount(2) = 0
  /\ last_save_time = Some(decisions[1].t)

\* How many messages of the scanner the processor has dealt with in full.
Handled == Len(emitted) - Len(procChan) - (IF InAcceptBranch THEN 1 ELSE 0)

Kept(s) == SelectSeq(s, LAMBDA m : m.kind = "StatusUpdate" \/ Accepted(m.id))

NonOutcome(s) == SelectSeq(s, LAMBDA m : m.kind # "CsvWriteStatus")

\* C4: while the GUI lives, what it was sent, write outcomes aside, is exactly
\* what the scanner emitted and the processor has dealt with, minus the
\* readings the dedupe policy dropped: unchanged, once each, in emission order.
C4_ForwardedInOrder ==
  /\ ProcRxAlive => IsPrefix(procChan, SubSeq(emitted, Len(emitted) - Len(procChan) + 1,
                                            Len(emitted)))
  /\ guiAlive => NonOutcome(GuiStream) = Kept(SubSeq(emitted, 1, Handled))

\* A status, a reading and a later status reached the GUI in emission order.
C4_Witness ==
  /\ guiAlive
  /\ NonOutcome(consumed) = <<StatusUpdate("Scanning (continuous mode)..."), NewData(1),
                              StatusUpdate("Waiting...")>>

\* C5: every dedupe decision uses the threshold the shared Config holds when the
\* reading is processed, and a commit of the settings editor touches neither
\* the scanner nor the processor.
C5_HotReload ==
  [][/\ DecisionStep =>
          (Last(decisions').acc <=>
             \/ ~last_save_time.some
             \/ (now' - last_save_time.t) \div TicksPerSec
                  >= shared_config.duplicate_threshold_secs)
     /\ shared_config' # shared_config =>
          UNCHANGED <<scannerVars, dedupVars, procChan, guiChan>>]_vars

\* A reading 1 s after the last accepted one is dropped under the threshold of
\* 2 s committed in between (the initial 1 s would have accepted it).
C5_Witness ==
  /\ Len(decisions) = 2
  /\ decisions[1].acc /\ decisions[1].thr = StartConfig.duplicate_threshold_secs
  /\ decisions[2].thr = 2 /\ ~decisions[2].acc
  /\ decisions[2].t - decisions[1].t = TicksPerSec
  /\ scPc # "Panicked" /\ dPc = "Recv"

\* C6: after the send of a reading failed the scanner emits no status, does
\* not sleep and starts no further cycle.
C6_ScannerStopsOnSendFailure == scSendFailed => scPc \in {"StopScan", "Idle"}

\* C7: the scanner is never dead.
C7_ScannerNeverDead == scPc # "Panicked"

\* C8: nothing terminates the process.
C8_ProcessNeverTerminated == mainPc # "crashed"

\* C9: the write-outcome message of a reading is success exactly when its row
\* was appended; the write is tried once; the reading is forwarded after a
\* failure as after a success; a failed write does not end the loop.
C9_WriteOutcome ==
  /\ IsPrefix(dOps, AcceptOrder)
  /\ dPc = "EmitOutcome" => (write_ok <=> RowCount(dMsg.id) = 1)
  /\ \A id \in 1..MaxReadings : RowCount(id) <= 1
  /\ \A i \in 1..Len(GuiStream) :
       GuiStream[i].kind = "CsvWriteStatus" =>
         /\ GuiStream[i].ok <=> RowCount(GuiStream[i].id) = 1
         /\ i < Len(GuiStream) => GuiStream[i + 1] = NewData(GuiStream[i].id)
         /\ i = Len(GuiStream) => dPc \in {"Mark", "Forward"} /\ dMsg.id = GuiStream[i].id
  /\ dPc = "Done" => ~guiAlive \/ scPc = "Panicked"

\* A failed write was reported, the reading forwarded, and a later message
\* processed.
C9_Witness ==
  /\ guiAlive
  /\ Len(GuiStream) >= 4
  /\ \E i \in 1..(Len(GuiStream) - 2) :
       /\ GuiStream[i] = CsvWriteStatus(FALSE, 1)
       /\ GuiStream[i + 1] = NewData(1)
  /\ RowCount(1) = 0

EmitStep == scCycleReadings' = scCycleReadings + 1

\* C10: in timed mode a cycle emits at most one reading, a successful emission
\* ending the observation; in continuous mode a successful emission leaves the
\* scanner observing.
C10_SingleShot ==
  [][/\ ~current_config.continuous_mode => scCycleReadings' <= 1
     /\ EmitStep /\ ~current_config.continuous_mode => scPc' = "StopScan"
     /\ EmitStep /\ current_config.continuous_mode => scPc' = "Observe"]_vars

\* Timed mode: one reading was emitted and the observation has ended.
C10_Witness ==
  /\ ~current_config.continuous_mode
  /\ scCycleReadings = 1 /\ scPc = "StopScan"
  /\ Last(emitted) = NewData(1)

Scanning == scPc \in {"Observe", "StopScan"}

Sleeping == scPc \in {"Sleep", "Backoff"}

\* C11: in a cycle whose snapshot has continuous_mode the observe window is
\* 60 s and the pause and the backoff are 1 s, whatever scan_timeout and
\* scan_pause are; in a cycle whose snapshot has not, the window is the
\* snapshot's scan_timeout and the pause and the backoff its scan_pause.
C11_CycleDurations ==
  /\ Scanning /\ current_config.continuous_mode => scan_duration = 60
  /\ Scanning /\ ~current_config.continuous_mode =>
       scan_duration = current_config.scan_timeout_secs
  /\ Sleeping /\ current_config.continuous_mode => pause_duration = 1
  /\ Sleeping /\ ~current_config.continuous_mode =>
       pause_duration = current_config.scan_pause_secs

\* A continuous cycle sleeps 1 s although the shared Config was changed to
\* timed mode, with a pause of 3 s, after the cycle's snapshot.
C11_Witness ==
  /\ scPc = "Sleep" /\ pause_duration = 1
  /\ current_config.continuous_mode /\ current_config.scan_pause_secs = 3
  /\ ~shared_config.continuous_mode /\ shared_config.scan_pause_secs = 3

Decoded == scPc = "Decoded"

company_id == manufacturer_data.company_id

data == manufacturer_data.data

\* C12: a reading is produced if and only if the payload has at least 2 bytes;
\* its temperature, in tenths, is the signed 16-bit value whose low byte is the
\* high byte of the company identifier and whose high byte is data[0] (negative
\* exactly when data[0] >= 128, the identifier's low byte playing no part); its
\* humidity is data[1], whatever its value.
C12_Decoder ==
  Decoded =>
    /\ data_point.some <=> Len(data) >= 2
    /\ data_point.some =>
         /\ data_point.temp \in -32768..32767
         /\ (data_point.temp + 65536) % 65536 = (company_id \div 256) + 256 * data[1]
         /\ data_point.temp < 0 <=> data[1] >= 128
         /\ data_point.temp =
              Decode(company_id - (company_id % 256), data).temp
         /\ data_point.hum = data[2]

\* Identifier 0xFF00 and payload [0xFF, 0xD7, ..]: -0.1 degrees, humidity 215.
C12_Witness ==
  /\ Decoded
  /\ company_id = 65280 /\ Len(data) = 3 /\ data[1] = 255 /\ data[2] = 215
  /\ data_point = [some |-> TRUE, temp |-> -1, hum |-> 215]

WrittenOk == SelectSeq(written, LAMBDA w : w.ok)

DistinctTimestamps(w) ==
  \A i \in 1..Len(w), j \in 1..Len(w) : i # j => w[i].timestamp # w[j].timestamp

\* A timestamp to the second, the resolution of the row's pattern.
Second(timestamp) == timestamp \div TicksPerSec

\* C13: N readings with distinct timestamps written to a log that was absent,
\* then loaded with load_all_history: the history is N points, in the order of
\* writing, each with the timestamp (to the second), the temperature and the
\* humidity of its reading.
C13_RoundTrip ==
  /\ mainPc = "run" /\ opened /\ shared_config.load_all_history
  /\ written = WrittenOk /\ DistinctTimestamps(written)
  => /\ Len(history) = Len(written)
     /\ \A i \in 1..Len(history) :
          /\ Second(history[i].timestamp) = Second(written[i].timestamp)
          /\ history[i].temp = written[i].temp
          /\ history[i].hum = written[i].hum

\* What does hold of the round trip: as many points as rows written, in order,
\* with the readings' temperatures and humidities.
C13_ValuesKept ==
  mainPc = "run" /\ opened /\ shared_config.load_all_history
  => /\ Len(history) = Len(WrittenOk)
     /\ \A i \in 1..Len(history) :
          /\ history[i].temp = WrittenOk[i].temp
          /\ history[i].hum = WrittenOk[i].hum
          /\ history[i].timestamp % TicksPerSec = 0

\* The records the loader reads from the log (lines 446-460).
AllRecords ==
  IF csv_records(logFile.rows, Comma) # <<>>
  THEN csv_records(logFile.rows, Comma)
  ELSE csv_records(logFile.rows, Semicolon)

\* The points of every row of the log that parses, oldest first.
ValidRows == ParseRecords(AllRecords)

LastOf(q, n) == SubSeq(q, Len(q) - n + 1, Len(q))

LoadDone == mainPc = "run" /\ opened

\* C14: loaded with load_all_history = false, a log with more than
\* MAX_HISTORY_POINTS valid rows gives exactly the MAX_HISTORY_POINTS most
\* recent of the rows that parse, oldest first, whatever damaged rows lie
\* between them; loaded with load_all_history = true, every log gives all its
\* rows that parse.
C14_BoundedLoad ==
  LoadDone =>
    /\ shared_config.load_all_history => history = ValidRows
    /\ ~shared_config.load_all_history /\ Len(ValidRows) > MAX_HISTORY_POINTS =>
         history = LastOf(ValidRows, MAX_HISTORY_POINTS)

\* The part of it that holds: the points loaded are the rows that parse among
\* the last MAX_HISTORY_POINTS records.
C14_SuffixOfRecords ==
  LoadDone /\ ~shared_config.load_all_history /\ Len(AllRecords) > MAX_HISTORY_POINTS =>
    history = ParseRecords(LastOf(AllRecords, MAX_HISTORY_POINTS))

\* The line is a legacy row: four semicolon-separated columns that parse.
IsLegacyRow(line) ==
  LET r == SplitFields(line, Semicolon)
  IN /\ Len(r) = 4
     /\ ParseLegacy(r[1], r[2]).ok
     /\ ParseF32(ReplaceComma(r[3])).ok
     /\ ParseU8(r[4]).ok

\* The lines of the log after its legacy header line, if it has one.
LegacyBody ==
  IF logFile.rows # <<>> /\ logFile.rows[1] = LegacyHeader
  THEN Tail(logFile.rows)
  ELSE logFile.rows

OnlyLegacyRows ==
  /\ logFile.exists /\ LegacyBody # <<>>
  /\ \A i \in 1..Len(LegacyBody) : IsLegacyRow(LegacyBody[i])

LegacyPoints ==
  [i \in 1..Len(LegacyBody) |-> ParseRecord(SplitFields(LegacyBody[i], Semicolon))[1]]

HasLegacyHeader == logFile.rows # <<>> /\ logFile.rows[1] = LegacyHeader

\* C15: a log that holds, after the legacy header line, only semicolon-delimited
\* legacy rows, the decimal sign a point or a comma, is loaded in full: every
\* row one point, in file order.
C15_LegacyLoad ==
  LoadDone /\ OnlyLegacyRows /\ HasLegacyHeader => history = LegacyPoints

\* What does hold: with the legacy header line and a comma as the decimal sign
\* of every row the log is loaded in full, and a log none of whose rows has a
\* comma is not loaded at all, unless it has one line.
C15_CommaDecimalOnly ==
  LoadDone /\ OnlyLegacyRows =>
    /\ (/\ HasLegacyHeader
        /\ \A i \in 1..Len(LegacyBody) : FirstAt(LegacyBody[i], Comma) # 0)
       => history = LegacyPoints
    /\ (\A i \in 1..Len(LegacyBody) : FirstAt(LegacyBody[i], Comma) = 0)
       => history = <<>>

\* C16: every snapshot a reader obtained is, in all its fields, one of the
\* values stored, and so is what a reader holding the lock has copied so far
\* together with what it has yet to copy; the cell is whole whenever the lock
\* is free.
C16_NoTornRead ==
  /\ snapshots \subseteq stored
  /\ \A th \in Readers :
       cfgPc[th] >= 0 =>
         \E c \in stored :
           \A i \in 1..Len(Fields) :
             (IF i <= cfgPc[th] THEN cfgVal[th] ELSE shared_config)[Fields[i]]
               = c[Fields[i]]
  /\ mutex = "free" => shared_config \in stored

\* Both readers obtained the initial value and the one committed later, and
\* a reader is waiting for the window to finish a store that is half done.
C16_Witness ==
  /\ snapshots = ConfigValues
  /\ mutex = "gui" /\ cfgPc["gui"] = 4
  /\ shared_config \notin stored
  /\ current_config # StartConfig

\* The decision of the last reading handled, and the reading.
LastDecision == decisions[Len(decisions)]

LastAccepted == decisions[Max({i \in 1..Len(decisions) : decisions[i].acc})]

\* The accepting branch is past line 527 for every accepted reading.
MarkDone == dPc \notin {"Write", "EmitOutcome", "Mark"}

\* C17, as the specification states it: once an accepted reading's marker is
\* set, the marker is that reading's own timestamp (its captured_at).
C17_MarkerIsCapturedAt ==
  last_save_time.some /\ MarkDone =>
    last_save_time.t = CapturedAt(LastAccepted)

\* C17, amended: once an accepted reading's marker is set, the marker is the
\* processing time at which the reading was handled (the Instant of line 518),
\* whatever the reading's own timestamp is; before any acceptance there is
\* no marker, and a dropped reading leaves the marker alone.
C17_MarkerIsProcessingTime ==
  MarkDone =>
    IF \E i \in 1..Len(decisions) : decisions[i].acc
      THEN last_save_time = Some(LastAccepted.t)
      ELSE last_save_time = None

\* A reading taken at 0 was handled and accepted one second later, and the
\* next one, taken one second after the first, was dropped against the marker.
C17_Witness ==
  /\ Len(decisions) = 2 /\ MarkDone
  /\ decisions[1].acc /\ ~decisions[2].acc
  /\ captured[1] = 0 /\ captured[2] = TicksPerSec
  /\ last_save_time = Some(TicksPerSec)
  /\ decisions[1].thr = 1

\* The processing times and the thresholds of the first n readings handled.
ProcessingTimes == [i \in 1..Len(decisions) |-> decisions[i].t]

Thresholds == [i \in 1..Len(decisions) |-> decisions[i].thr]

\* The time of the last acceptance among the first n readings, from the
\* processing times and the thresholds alone.
RECURSIVE LastAcceptance(_, _, _)
LastAcceptance(times, thrs, n) ==
  IF n = 0 THEN None
  ELSE LET last == LastAcceptance(times, thrs, n - 1)
       IN IF ~last.some \/ times[n] - last.t >= thrs[n] * TicksPerSec
            THEN Some(times[n]) ELSE last

\* The decisions that follow from the processing times and the thresholds.
DecisionsFrom(times, thrs) ==
  [i \in 1..Len(times) |->
     LET last == LastAcceptance(times, thrs, i - 1)
     IN ~last.some \/ times[i] - last.t >= thrs[i] * TicksPerSec]

\* C18: the accept/drop decisions of a run are a function of the processing
\* times and of the thresholds in force when the readings were handled; the
\* readings' own timestamps (captured_at) are no argument of it, so two runs
\* that agree on the former make the same decisions whatever the latter are.
C18_DecisionsIgnoreCapturedAt ==
  [i \in 1..Len(decisions) |-> decisions[i].acc]
    = DecisionsFrom(ProcessingTimes, Thresholds)

\* Two readings taken a full threshold apart, handled at the same instant:
\* the second is dropped, as it would be had both been taken together.
C18_Witness ==
  /\ Len(decisions) = 2
  /\ captured[2] - captured[1] = MaxClock
  /\ decisions[1].t = decisions[2].t
  /\ decisions[2].thr * TicksPerSec <= MaxClock
  /\ decisions[1].acc /\ ~decisions[2].acc

\* The scanner leaves line 560-569 without an adapter handle.
NoAdapterHandle == scPc = "AcquireAdapter" /\ scPc' \notin {"AcquireAdapter", "StartScan"}

\* C19: whenever the scanner fails to obtain an adapter handle (the manager
\* cannot be created, or no adapter is available), it sends the status
\* "Error: BT adapter not found" (queued while the processor receives), starts
\* no scan and goes to sleep the backoff, 1 s in continuous mode and else
\* scan_pause_secs, from which it wakes at the head of the loop.
C19_AdapterFailure ==
  [][NoAdapterHandle =>
       /\ ProcRxAlive => emitted' = Append(emitted, StatusUpdate("Error: BT adapter not found"))
       /\ scPc' = "Backoff"
       /\ pause_duration' = PauseSecs(current_config)
       /\ scan_duration' = 0]_vars

\* The step that leaves line 573 with start_scan failed, and with it succeeded.
StartScanFailed == scPc = "StartScan" /\ scPc' = "Idle"

StartScanSucceeded == scPc = "StartScan" /\ scPc' \notin {"StartScan", "Idle"}

\* The scanner sends the status "Waiting..." (queued while the processor receives).
SendsWaiting ==
  /\ emitted' # emitted
  /\ emitted'[Len(emitted')] = StatusUpdate("Waiting...")

\* C20: when start_scan fails the scanner has sent no reading in the cycle,
\* sends none and goes directly to Idle, where alone the "Waiting..." status
\* is sent; a cycle in which start_scan succeeded goes through the observe
\* loop to stop_scan and from there to Idle, so stop_scan runs in those cycles,
\* before their "Waiting..." status, and Idle is entered otherwise only from
\* a failed start or without an adapter.
C20_StopScanIffStarted ==
  [][/\ StartScanFailed => emitted' = emitted /\ scCycleReadings = 0
     /\ StartScanSucceeded => scPc' = "Observe"
     /\ scPc = "Observe" => scPc' \in {"Observe", "StopScan"}
     /\ scPc = "StopScan" => scPc' \in {"StopScan", "Idle"} /\ ~SendsWaiting
     /\ scPc # "Idle" /\ scPc' = "Idle" =>
          scPc \in {"StopScan", "StartScan", "AcquireAdapter"}
     /\ SendsWaiting => scPc = "Idle" /\ scPc' = "Sleep"]_vars


\* The rows of the log below its first line.
DataRows == IF logFile.rows = <<>> THEN <<>> ELSE Tail(logFile.rows)

\* line is a row log_to_csv writes for the values of w, at some time.
IsRowOf(line, w) == \E t \in 0..MaxClock : line = FormatRow(t, w.temp, w.hum)

\* C21: a log that starts absent, or empty, holds after any writes nothing or
\* the header line as its first line and nowhere else, followed by one row
\* per successful write, in the order of the writes; a write keeps the lines
\* the log has, in place, and adds the header only to a log that was absent
\* or empty.
C21_HeaderOnceAppendOnly ==
  /\ [](/\ WrittenOk = <<>> => logFile.rows = <<>>
        /\ WrittenOk # <<>> => logFile.rows[1] = HeaderLine
        /\ \A i \in 1..Len(DataRows) : DataRows[i] # HeaderLine
        /\ Len(DataRows) = Len(WrittenOk)
        /\ \A i \in 1..Len(DataRows) : IsRowOf(DataRows[i], WrittenOk[i]))
  /\ [][/\ logFile.rows # <<>> => IsPrefix(logFile.rows, logFile'.rows)
        /\ logFile.exists => logFile'.exists
        /\ Len(logFile'.rows) > Len(logFile.rows)
             /\ logFile'.rows[Len(logFile.rows) + 1] = HeaderLine
           => ~logFile.exists \/ logFile.rows = <<>>]_vars

\* Two successful writes to a log that was absent: the first wrote the header
\* and its row, the second its row alone.
C21_Witness ==
  /\ Len(written) = 2
  /\ written[1].ok /\ written[2].ok
  /\ Len(logFile.rows) = 3
  /\ written[1].temp # written[2].temp


\* The processor's loop ends in this step.
Terminates == dPc # "Done" /\ dPc' = "Done"

\* scanner_tx was dropped and the queue is drained: rx's iterator ends.
ChannelClosed == procChan = <<>> /\ scPc = "Panicked"

\* The processor is at a tx.send of a NewData or a StatusUpdate (line 528 or
\* 534) and app.rx is gone.
ForwardFails ==
  /\ ~guiAlive
  /\ \/ dPc = "Forward"
     \/ dPc = "Recv" /\ procChan # <<>> /\ Head(procChan).kind = "StatusUpdate"

StatusQueued == \E i \in 1..Len(procChan) : procChan[i].kind = "StatusUpdate"

\* C22: the processor's loop ends only in a step taken with its input channel
\* closed or with a forward of a reading or of a status text failing, and
\* such a forward always ends it; with the consumer gone and a status text
\* of the scanner in its queue, and with the channel closed in a process
\* that lives on, it ends eventually; once ended it stays so, the log keeps its content and the
\* consumer is sent nothing.
C22_Termination ==
  /\ [][/\ Terminates => ChannelClosed \/ ForwardFails
        /\ ForwardFails /\ dedupVars' # dedupVars => dPc' = "Done"
        /\ dPc = "Done" =>
             /\ dPc' = "Done" /\ logFile' = logFile
             /\ guiChan' = guiChan \/ guiChan' = <<>>]_vars
  /\ (~guiAlive /\ StatusQueued) ~> (dPc = "Done")
  /\ (ChannelClosed /\ dPc = "Recv") ~> (dPc = "Done" \/ ~ProcessAlive)

\* The loop ended on a failed forward with the scanner still alive, after a
\* row was written.
C22_Witness ==
  /\ dPc = "Done" /\ ~guiAlive
  /\ scPc \notin {"Panicked", "ReadConfig"}
  /\ Len(logFile.rows) > 0
  /\ \E i \in 1..Len(decisions) : decisions[i].acc


\* The scanner takes its snapshot: line 558, the first statement of a cycle.
TakesSnapshot == scPc = "ReadConfig" /\ scPc' # "ReadConfig"

\* C23: the scanner's snapshot changes only in the first step of a cycle, which
\* every cycle takes and which copies the shared Config as it then is; the
\* observe window, the pause, the status text and the single-shot return of
\* the cycle follow that snapshot (C24 has the address test), whatever the shared
\* Config has become; a commit of the settings editor leaves the scanner
\* where it is, so the change is used from the next cycle's snapshot on.
C23_SnapshotPerCycle ==
  [][/\ current_config' # current_config => TakesSnapshot
     /\ TakesSnapshot => current_config' = shared_config /\ scPc' = "AcquireAdapter"
     /\ scPc' = "ReadConfig" /\ scPc # "ReadConfig" => scPc \in {"Sleep", "Backoff"}
     /\ scan_duration' # scan_duration /\ scan_duration' # 0 =>
          scan_duration' = IF current_config.continuous_mode THEN 60
                           ELSE current_config.scan_timeout_secs
     /\ pause_duration' # pause_duration /\ pause_duration' # 0 =>
          pause_duration' = IF current_config.continuous_mode THEN 1
                            ELSE current_config.scan_pause_secs
     /\ scPc = "AcquireAdapter" /\ scPc' = "StartScan" /\ emitted' # emitted =>
          emitted'[Len(emitted')].text =
            IF current_config.continuous_mode THEN "Scanning (continuous mode)..."
            ELSE "Scanning..."
     /\ scCycleReadings' > scCycleReadings =>
          scPc' = IF current_config.continuous_mode THEN "Observe" ELSE "StopScan"
     /\ shared_config' # shared_config => UNCHANGED scannerVars]_vars

\* The first cycle ran in continuous mode; timed mode was committed during it
\* and the second cycle observes for the scan_timeout of its own snapshot.
C23_Witness ==
  /\ scPc = "Observe" /\ ~current_config.continuous_mode
  /\ scan_duration = current_config.scan_timeout_secs
  /\ Len(emitted) = 3
  /\ emitted[1] = StatusUpdate("Scanning (continuous mode)...")
  /\ emitted[2] = StatusUpdate("Waiting...")
  /\ emitted[3] = StatusUpdate("Scanning...")


\* A reading is sent in this step.
SendsReading ==
  /\ emitted' # emitted
  /\ emitted'[Len(emitted')].kind = "NewData"

\* C24: a reading is sent only for a DeviceDiscovered or DeviceUpdated item
\* whose address equals the target_mac of the cycle's snapshot, ASCII case
\* ignored, and whose first manufacturer-data entry has at least 2 bytes; for
\* an item of another address, without manufacturer data or with a shorter
\* entry nothing is sent and the loop goes on.
C24_OnlyTargetReadings ==
  [][/\ SendsReading =>
          /\ event'.kind \in {"DeviceDiscovered", "DeviceUpdated"}
          /\ AsciiUpper(event'.address) = AsciiUpper(current_config.target_mac)
          /\ event'.has_mdata /\ event'.data_len >= 2
     /\ event' # event /\ (\/ AsciiUpper(event'.address)
                                # AsciiUpper(current_config.target_mac)
                           \/ ~event'.has_mdata
                           \/ event'.data_len < 2) =>
          UNCHANGED <<procChan, emitted, scPc>>]_vars

\* An update of the target, whose address differs from target_mac in case
\* alone, gave the second reading of a continuous cycle.
C24_Witness ==
  /\ Len(emitted) = 2 /\ emitted[2].kind = "NewData"
  /\ event.kind = "DeviceUpdated" /\ event.address = "B8:59"
  /\ current_config.target_mac = "b8:59"
  /\ event.data_len = 2 /\ scPc = "Observe"


\* add_data_point is called in this step; the point added is the last.
AddsPoint == consumed' # consumed

\* C25: with load_all_history false the history holds at most
\* MAX_HISTORY_POINTS points, after the load and after every add; an add
\* drops points from the front until fewer than MAX_HISTORY_POINTS are left
\* (one point of a full history, none of a shorter one) and puts the new point
\* last, the points kept staying in their order; with load_all_history true an
\* add keeps every point.
C25_BoundedHistory ==
  /\ [](~shared_config.load_all_history => Len(history) <= MAX_HISTORY_POINTS)
  /\ [][AddsPoint =>
          LET kept == IF shared_config.load_all_history
                           \/ Len(history) < MAX_HISTORY_POINTS
                        THEN history
                        ELSE LastOf(history, MAX_HISTORY_POINTS - 1)
          IN /\ Len(history') = Len(kept) + 1
             /\ SubSeq(history', 1, Len(kept)) = kept
             /\ history'[Len(history')].timestamp = captured[Len(consumed')]]_vars

\* A full history took two readings: the two oldest points went, the two new
\* ones are last.
C25_Witness ==
  /\ ~shared_config.load_all_history
  /\ Len(consumed) = 2 /\ Len(history) = MAX_HISTORY_POINTS
  /\ Len(logFile.rows) > MAX_HISTORY_POINTS + 1
  /\ history[MAX_HISTORY_POINTS].timestamp = captured[2]
  /\ history[MAX_HISTORY_POINTS - 1].timestamp = captured[1]
  /\ history[1].timestamp > 2 * TicksPerSec


\* The points of the history that reading id gave.
PointsFor(id) == {i \in 1..Len(history) : history[i] = id}

\* C26: a reading gives the history at most one point: none is both loaded
\* from the log at startup and added from its NewData message.
C26_OnePointPerReading ==
  \A id \in 1..MaxReadings : Cardinality(PointsFor(id)) <= 1


\* The rows of the log change in this step: log_to_csv appended one.
AppendsRow == logFile'.rows # logFile.rows

\* The current reading's row is behind the processor, its forward ahead.
PastWrite == dPc \in {"EmitOutcome", "Mark", "Forward"}

\* C27: app.rx once dropped stays dropped, and from then on the processor
\* appends at most one row: a row is appended only by the write of an accepted
\* reading, after which the processor goes to that reading's forward and from
\* its failure to the end of the loop, never to a further receive; a reading
\* that is dropped leaves the loop running and the log alone, a status text
\* ends the loop with the log as it was, and the ended loop writes nothing.
C27_OneRowAfterDrop ==
  [][/\ ~guiAlive => ~guiAlive'
     /\ AppendsRow =>
          /\ dPc = "Write" /\ PastWrite'
          /\ Len(logFile'.rows) <= Len(logFile.rows) + 2
     /\ ~guiAlive /\ PastWrite => PastWrite' \/ dPc' = "Done"
     /\ ~guiAlive /\ dPc = "Forward" /\ dPc' # dPc => dPc' = "Done"
     /\ ~guiAlive /\ DecisionStep /\ ~Last(decisions').acc =>
          dPc' = "Recv" /\ logFile' = logFile
     /\ ~guiAlive /\ dPc = "Recv" /\ dPc' = "Done" /\ procChan # <<>> =>
          Head(procChan).kind = "StatusUpdate" /\ logFile' = logFile
     /\ dPc = "Done" => dPc' = "Done" /\ logFile' = logFile]_vars

\* The window was closed after the first reading's row; the second reading
\* is accepted and the processor is about to write its row.
C27_Witness ==
  /\ ~guiAlive /\ mainPc = "closed"
  /\ dPc = "Write" /\ Len(decisions) = 2
  /\ RowCount(1) = 1 /\ RowCount(2) = 0

====
